---- MODULE Spec2Model ----
(***************************************************************************)
(* Model of src/demo.py (KnowledgeCircuitVis): the graph parser            *)
(* gv_to_edges, the identifier classification get_layer /                  *)
(* get_attention_head, the layout engine create_elements and the control   *)
(* flow of main.                                                           *)
(*                                                                         *)
(* Python strings are sequences of one-character strings, so that          *)
(* startswith, split, int() and the regular expression are computed        *)
(* character by character.  Python floats are modelled by exact rationals  *)
(* <<numerator, denominator>> in lowest terms; the coordinates the claims  *)
(* compare differ by far more than a rounding error.                       *)
(***************************************************************************)
EXTENDS Integers, Sequences, FiniteSets, TLC

VARIABLES
    analysis_method,  \* main: the sidebar radio's value
    listing,          \* the entries of the directory 'gpt2-medium'
    uploaded_file,    \* the file uploader's value: "None" or "UploadedFile"
    file_text,        \* the text of graph.gv / of the uploaded file
    pc,               \* main's position in the current pass
    gv_file_path,     \* main's local gv_file_path
    edges,            \* main's local edges
    layout,           \* the outcome of create_elements in this pass
    events,           \* what the pass did and displayed, in order
    parse_file,       \* SpecParse: the argument gv_file of gv_to_edges
    parse_text,       \* SpecParse: the text behind parse_file
    parse_pc,         \* SpecParse: position
    parse_first,      \* SpecParse: what the first call returned
    parse_second,     \* SpecParse: what the second call returned
    id_node,          \* SpecIds: the identifier under classification
    id_pc,            \* SpecIds: position
    id_layer,         \* SpecIds: outcome of get_layer(id_node)
    id_head           \* SpecIds: outcome of get_attention_head(id_node)

vars == <<analysis_method, listing, uploaded_file, file_text, pc, gv_file_path,
          edges, layout, events,
          parse_file, parse_text, parse_pc, parse_first, parse_second,
          id_node, id_pc, id_layer, id_head>>

main_vars == <<analysis_method, listing, uploaded_file, file_text, pc,
               gv_file_path, edges, layout, events>>

parse_vars == <<parse_file, parse_text, parse_pc, parse_first, parse_second>>

ids_vars == <<id_node, id_pc, id_layer, id_head>>

(***************************************************************************)
(* Bounds of the model.                                                    *)
(***************************************************************************)
MaxLines == 2       \* lines of a graph text in Spec
MaxParseLines == 2  \* lines of a graph text in SpecParse
MaxIdLen == 4       \* characters of an identifier in SpecIds

(***************************************************************************)
(* Strings.                                                                *)
(***************************************************************************)
Q == "\""
NL == "\n"

Digits == {"0", "1", "2", "3", "4", "5", "6", "7", "8", "9"}

Whitespace == {" ", "\n", "\t", "\r"}

DigitVal(c) ==
    CASE c = "0" -> 0 [] c = "1" -> 1 [] c = "2" -> 2 [] c = "3" -> 3
      [] c = "4" -> 4 [] c = "5" -> 5 [] c = "6" -> 6 [] c = "7" -> 7
      [] c = "8" -> 8 [] c = "9" -> 9

startswith(s, c) == Len(s) >= 1 /\ s[1] = c

Contains(s, c) == \E i \in 1..Len(s) : s[i] = c

\* s[i:j] of Python with 1-based inclusive bounds
Slice(s, i, j) == IF j < i THEN <<>> ELSE SubSeq(s, i, j)

\* s.split(sep)[0]: the part before the first sep (all of s when there is none)
SplitFirst(s, sep) ==
    IF Contains(s, sep)
    THEN LET i == CHOOSE k \in 1..Len(s) :
                     s[k] = sep /\ \A j \in 1..(k - 1) : s[j] # sep
         IN  Slice(s, 1, i - 1)
    ELSE s

\* s.split(sep)[-1]: the part after the last sep (all of s when there is none)
SplitLast(s, sep) ==
    IF Contains(s, sep)
    THEN LET i == CHOOSE k \in 1..Len(s) :
                     s[k] = sep /\ \A j \in (k + 1)..Len(s) : s[j] # sep
         IN  Slice(s, i + 1, Len(s))
    ELSE s

\* s.strip()
RECURSIVE LStrip(_)
LStrip(s) == IF s # <<>> /\ s[1] \in Whitespace THEN LStrip(Tail(s)) ELSE s

RECURSIVE RStrip(_)
RStrip(s) ==
    IF s # <<>> /\ s[Len(s)] \in Whitespace
    THEN RStrip(SubSeq(s, 1, Len(s) - 1))
    ELSE s

RECURSIVE DecimalValue(_)
DecimalValue(ds) ==
    IF ds = <<>> THEN 0
    ELSE 10 * DecimalValue(SubSeq(ds, 1, Len(ds) - 1)) + DigitVal(ds[Len(ds)])

Returned(v) == [exc |-> "none", val |-> v]
Raised(e) == [exc |-> e, val |-> 0]

\* int(s): optional surrounding whitespace, an optional sign, decimal digits
\* with single underscores between them; anything else raises ValueError
PyInt(s) ==
    LET t == RStrip(LStrip(s))
        signed == t # <<>> /\ t[1] \in {"+", "-"}
        body == IF signed THEN Tail(t) ELSE t
        wellformed ==
            /\ body # <<>>
            /\ \A i \in 1..Len(body) : body[i] \in Digits \cup {"_"}
            /\ body[1] \in Digits
            /\ body[Len(body)] \in Digits
            /\ \A i \in 1..(Len(body) - 1) : ~(body[i] = "_" /\ body[i + 1] = "_")
        magnitude == DecimalValue(SelectSeq(body, LAMBDA c : c \in Digits))
    IN  IF ~wellformed THEN Raised("ValueError")
        ELSE IF signed /\ t[1] = "-" THEN Returned(0 - magnitude)
        ELSE Returned(magnitude)

(***************************************************************************)
(* get_layer and get_attention_head.                                       *)
(***************************************************************************)
SentinelLayer == 100

get_layer(node) ==
    IF startswith(node, "m") THEN PyInt(SplitFirst(Tail(node), "-"))
    ELSE IF startswith(node, "a") THEN PyInt(SplitFirst(Tail(node), "."))
    ELSE Returned(SentinelLayer)

get_attention_head(node) ==
    IF startswith(node, "a") THEN PyInt(SplitLast(node, "."))
    ELSE Returned(-1)

(***************************************************************************)
(* gv_to_edges.                                                            *)
(***************************************************************************)
\* the literal parts of edge_pattern: quote <, then > quote -> quote <, then
\* > quote; between them the two lazy groups (.+?)
PatOpen == <<Q, "<">>
PatArrow == <<">", Q, " ", "-", ">", " ", Q, "<">>
PatClose == <<">", Q>>

HasAt(s, i, lit) ==
    /\ i >= 1
    /\ i + Len(lit) - 1 <= Len(s)
    /\ SubSeq(s, i, i + Len(lit) - 1) = lit

\* '.' matches every character but a newline
DotMatches(s, i, j) == \A k \in i..j : s[k] # NL

Least(S) == CHOOSE x \in S : \A y \in S : x <= y

\* ends of the second group when it starts at g: index of the closing literal
Group2Ends(line, g) ==
    {p \in (g + 1)..Len(line) : DotMatches(line, g, p - 1) /\ HasAt(line, p, PatClose)}

\* ends of the first group for a match starting at i, such that the rest of
\* the pattern can still match
Group1Ends(line, i) ==
    {p \in (i + 3)..Len(line) :
        /\ DotMatches(line, i + 2, p - 1)
        /\ HasAt(line, p, PatArrow)
        /\ Group2Ends(line, p + Len(PatArrow)) # {}}

MatchStarts(line) ==
    {i \in 1..Len(line) : HasAt(line, i, PatOpen) /\ Group1Ends(line, i) # {}}

\* edge_pattern.search(line): the leftmost match, both groups lazy.
\* found = FALSE is Python's None.
search(line) ==
    IF MatchStarts(line) = {} THEN [found |-> FALSE, g1 |-> <<>>, g2 |-> <<>>]
    ELSE LET i == Least(MatchStarts(line))
             p == Least(Group1Ends(line, i))
             g == p + Len(PatArrow)
             q == Least(Group2Ends(line, g))
         IN  [found |-> TRUE,
              g1 |-> SubSeq(line, i + 2, p - 1),
              g2 |-> SubSeq(line, g, q - 1)]

\* text mode with universal newlines: "\r\n" and "\r" are read as "\n"
RECURSIVE UniversalNewlines(_)
UniversalNewlines(text) ==
    IF text = <<>> THEN <<>>
    ELSE IF text[1] = "\r"
         THEN IF Len(text) >= 2 /\ text[2] = NL
              THEN <<NL>> \o UniversalNewlines(SubSeq(text, 3, Len(text)))
              ELSE <<NL>> \o UniversalNewlines(Tail(text))
         ELSE <<text[1]>> \o UniversalNewlines(Tail(text))

\* file.readlines(): each line keeps its "\n"; no empty last line
RECURSIVE KeepEnds(_)
KeepEnds(text) ==
    IF text = <<>> THEN <<>>
    ELSE IF Contains(text, NL)
         THEN LET first == SplitFirst(text, NL)
              IN  <<first \o <<NL>>>>
                    \o KeepEnds(SubSeq(text, Len(first) + 2, Len(text)))
         ELSE <<text>>

readlines(text) == KeepEnds(UniversalNewlines(text))

\* text.split('\n')
RECURSIVE split_newline(_)
split_newline(text) ==
    IF Contains(text, NL)
    THEN LET first == SplitFirst(text, NL)
         IN  <<first>> \o split_newline(SubSeq(text, Len(first) + 2, Len(text)))
    ELSE <<text>>

\* the loop with an edge that was already found left out
RECURSIVE match_lines_Deduplicated(_)
match_lines_Deduplicated(lines) ==
    IF lines = <<>> THEN <<>>
    ELSE LET found == match_lines_Deduplicated(SubSeq(lines, 1, Len(lines) - 1))
             match == search(lines[Len(lines)])
             pair == <<match.g1, match.g2>>
         IN  IF match.found /\ \A i \in 1..Len(found) : found[i] # pair
             THEN Append(found, pair)
             ELSE found

\* the loop 'for line in lines' of gv_to_edges
RECURSIVE match_lines(_)
match_lines(lines) ==
    IF lines = <<>> THEN <<>>
    ELSE LET match == search(lines[1])
         IN  (IF match.found THEN << <<match.g1, match.g2>> >> ELSE <<>>)
               \o match_lines(Tail(lines))

\* gv_file is a record [type, value]; text is what open(gv_file) reads or
\* what gv_file.getvalue().decode() returns
gv_to_edges(gv_file, text) ==
    LET lines == IF gv_file.type = "str" THEN readlines(text)
                 ELSE split_newline(text)
    IN  match_lines(lines)

(***************************************************************************)
(* Exact rationals <<n, d>>, d > 0, in lowest terms.                       *)
(***************************************************************************)
Abs(n) == IF n < 0 THEN 0 - n ELSE n

RECURSIVE GCD(_, _)
GCD(a, b) == IF b = 0 THEN a ELSE GCD(b, a % b)

\* n / d for d # 0
Rat(n, d) ==
    LET g == GCD(Abs(n), Abs(d))
        sn == IF d < 0 THEN 0 - n ELSE n
    IN  <<sn \div g, Abs(d) \div g>>

RatInt(n) == <<n, 1>>
RatSub(a, b) == Rat(a[1] * b[2] - b[1] * a[2], a[2] * b[2])
RatMul(a, b) == Rat(a[1] * b[1], a[2] * b[2])
RatDiv(a, b) == Rat(a[1] * b[2], a[2] * b[1])
RatLess(a, b) == a[1] * b[2] < b[1] * a[2]

(***************************************************************************)
(* create_elements.                                                        *)
(***************************************************************************)
\* node_types: the style of each type, as key/value pairs; {} for a type
\* that is not in the table
node_types_style(node_type) ==
    LET centered == {<<"display", "flex">>, <<"justifyContent", "center">>,
                     <<"alignItems", "center">>}
    IN  CASE node_type = "Input" ->
               {<<"background", "#f472b6">>, <<"width", "50">>} \cup centered
          [] node_type = "Embedding" ->
               {<<"background", "#4ea8de">>, <<"width", "50">>} \cup centered
          [] node_type = "Attention" ->
               {<<"background", "#ff9a3c">>, <<"width", "50">>} \cup centered
          [] node_type = "MLP" ->
               {<<"background", "#6ede87">>, <<"width", "50">>} \cup centered
          [] node_type = "Output" ->
               {<<"background", "#ffcc50">>, <<"width", "80">>} \cup centered
          [] OTHER -> {}

resid_post == <<"r", "e", "s", "i", "d", "_", "p", "o", "s", "t">>

\* the set with nodes.add(target) left out
NodesOf_SourcesOnly(es) == {es[i][1] : i \in 1..Len(es)}

\* the set built by nodes.add(source); nodes.add(target)
NodesOf(es) == {es[i][1] : i \in 1..Len(es)} \cup {es[i][2] : i \in 1..Len(es)}

\* the orders in which a set can be iterated: Python leaves the order of a
\* set of strings open (it follows the hash seed of the process)
RECURSIVE IterationOrders(_)
IterationOrders(S) ==
    IF S = {} THEN {<<>>}
    ELSE UNION {{<<n>> \o o : o \in IterationOrders(S \ {n})} : n \in S}

\* the sort key of line 90
SortKey(node) ==
    <<get_layer(node).val,
      IF startswith(node, "a") THEN get_attention_head(node).val ELSE -1>>

\* whether computing the sort key of node raises
KeyRaises(node) ==
    \/ get_layer(node).exc # "none"
    \/ startswith(node, "a") /\ get_attention_head(node).exc # "none"

\* tuple comparison k1 < k2
KeyLess(k1, k2) == k1[1] < k2[1] \/ (k1[1] = k2[1] /\ k1[2] < k2[2])

\* insert x after every element whose key is not smaller: equal keys keep the
\* order in which they were met
RECURSIVE InsertDesc(_, _, _)
InsertDesc(sorted, x, key) ==
    IF sorted = <<>> THEN <<x>>
    ELSE IF KeyLess(key[sorted[1]], key[x]) THEN <<x>> \o sorted
    ELSE <<sorted[1]>> \o InsertDesc(Tail(sorted), x, key)

\* sorted(order, key=..., reverse=True), which is stable; key maps each node
\* to its sort key
RECURSIVE SortedDesc(_, _)
SortedDesc(order, key) ==
    IF order = <<>> THEN <<>>
    ELSE InsertDesc(SortedDesc(SubSeq(order, 1, Len(order) - 1), key),
                    order[Len(order)], key)

\* line 90: what sorted(nodes, ...) can raise or return, over the orders in
\* which the set can be iterated
sorted_nodes_outcomes(nodes) ==
    IF \E n \in nodes : KeyRaises(n) THEN {[exc |-> "ValueError", val |-> <<>>]}
    ELSE LET key == [n \in nodes |-> SortKey(n)]
         IN  {[exc |-> "none", val |-> SortedDesc(o, key)] :
                 o \in IterationOrders(nodes)}

RECURSIVE Sum(_)
Sum(seq) == IF seq = <<>> THEN 0 ELSE seq[1] + Sum(Tail(seq))

MinOf(S) == CHOOSE x \in S : \A y \in S : x <= y
MaxOf(S) == CHOOSE x \in S : \A y \in S : x >= y

NoElements(e) ==
    [exc |-> e, elements |-> <<>>, sorted_nodes |-> <<>>, node_positions |-> <<>>,
     total_layers |-> 0, layer_height |-> RatInt(0)]

\* the x with the running count of the layer left out
NodeX_WithoutCount(node, graph_width, attention_count, layer_count) ==
    IF startswith(node, "m")
    THEN RatMul(RatInt(graph_width), Rat(5, 100))
    ELSE RatSub(RatMul(RatInt(graph_width), Rat(85, 100)),
                RatDiv(RatMul(RatInt(graph_width), Rat(8, 10)),
                       RatInt(layer_count + 1)))

\* the x of a node that is not in the sentinel layer
NodeX(node, graph_width, attention_count, layer_count) ==
    IF startswith(node, "m")
    THEN RatMul(RatInt(graph_width), Rat(5, 100))
    ELSE RatSub(RatMul(RatInt(graph_width), Rat(85, 100)),
                RatDiv(RatMul(RatInt(attention_count),
                              RatMul(RatInt(graph_width), Rat(8, 10))),
                       RatInt(layer_count + 1)))

\* the y without the half unit that centres the node in its band
NodeY_NotCentred(total_layers, before, layer_height) ==
    RatMul(RatInt(total_layers - before), layer_height)

\* the y of a node that is not in the sentinel layer
NodeY(total_layers, before, layer_height) ==
    RatMul(RatSub(RatInt(total_layers - before), Rat(1, 2)), layer_height)

\* the shift applied to every node
AdjustY_EveryNode(node, y, layer_height) ==
    RatSub(y, RatDiv(layer_height, RatInt(4)))

\* lines 143-144: the shift of the element of a node with 'H' in its name
AdjustY(node, y, layer_height) ==
    IF Contains(node, "H") THEN RatSub(y, RatDiv(layer_height, RatInt(4))) ELSE y

NodeType(node) ==
    IF startswith(node, "m") THEN "MLP"
    ELSE IF startswith(node, "a") THEN "Attention"
    ELSE IF node = resid_post THEN "Output"
    ELSE "default"

NodeElement(node, x, y) ==
    [id |-> node,
     data |-> [label |-> node],
     type |-> NodeType(node),
     position |-> [x |-> x, y |-> y],
     style |-> node_types_style(NodeType(node))]

EdgeElement(source, target) ==
    [id |-> source \o <<"-">> \o target,
     source |-> source,
     target |-> target,
     type |-> "smoothstep",
     animated |-> TRUE,
     style |-> {<<"stroke", "#888">>, <<"strokeWidth", "2">>,
                <<"strokeDasharray", "5, 5">>}]

\* the loop of lines 146-158
EdgeElements(es) == [i \in 1..Len(es) |-> EdgeElement(es[i][1], es[i][2])]

\* the loop of lines 98-102 from the k-th node of sorted_nodes on; both
\* lists are indexed by layer - min_layer + 1
RECURSIVE CountLayers(_, _, _, _, _, _)
CountLayers(sorted_nodes, k, layer_of, min_layer, layer_counts, layer_heights) ==
    IF k > Len(sorted_nodes)
    THEN [layer_counts |-> layer_counts, layer_heights |-> layer_heights]
    ELSE LET layer == layer_of[sorted_nodes[k]]
             idx == layer - min_layer + 1
         IN  IF layer # SentinelLayer
             THEN CountLayers(sorted_nodes, k + 1, layer_of, min_layer,
                              [layer_counts EXCEPT ![idx] = @ + 1],
                              [layer_heights EXCEPT ![idx] = IF @ > 1 THEN @ ELSE 1])
             ELSE CountLayers(sorted_nodes, k + 1, layer_of, min_layer,
                              layer_counts, layer_heights)

\* the loop of lines 111-144 from the k-th node of sorted_nodes on;
\* attention_counts is indexed by layer - min_layer + 1, positions is the
\* sequence of node_positions entries in insertion order
RECURSIVE PlaceNodes(_, _, _, _, _, _, _, _, _, _)
PlaceNodes(sorted_nodes, k, layer_of, min_layer, layer_counts, layer_heights, attention_counts, graph_width, total_layers, layer_height) ==
    IF k > Len(sorted_nodes) THEN [elements |-> <<>>, positions |-> <<>>]
    ELSE
      LET node == sorted_nodes[k]
          layer == layer_of[node]
          idx == layer - min_layer + 1
          counted == layer # SentinelLayer /\ ~startswith(node, "m")
          counts == IF counted
                    THEN [attention_counts EXCEPT ![idx] = @ + 1]
                    ELSE attention_counts
          x == IF layer = SentinelLayer
               THEN RatMul(RatInt(graph_width), Rat(7, 10))
               ELSE NodeX(node, graph_width, counts[idx], layer_counts[idx])
          y == IF layer = SentinelLayer
               THEN RatInt(20)
               ELSE NodeY(total_layers, Sum(SubSeq(layer_heights, 1, idx - 1)),
                          layer_height)
          rest == PlaceNodes(sorted_nodes, k + 1, layer_of, min_layer, layer_counts,
                             layer_heights, counts, graph_width, total_layers,
                             layer_height)
      IN  [elements |-> <<NodeElement(node, x, AdjustY(node, y, layer_height))>>
                          \o rest.elements,
           positions |-> <<[node |-> node, x |-> x, y |-> y]>> \o rest.positions]

\* create_elements(edges, graph_width, graph_height) when line 90 has the
\* outcome sorted_result
create_elements(es, graph_width, graph_height, sorted_result) ==
    LET nodes == NodesOf(es)
    IN
    IF sorted_result.exc # "none" THEN NoElements(sorted_result.exc)
    \* min() of an empty sequence
    ELSE IF nodes = {} THEN NoElements("ValueError")
    ELSE
      LET sorted_nodes == sorted_result.val
          layer_of == [n \in nodes |-> get_layer(n).val]
          min_layer == MinOf({layer_of[n] : n \in nodes})
          max_layer == MaxOf({layer_of[n] : n \in nodes})
          zeros == [i \in 1..(max_layer - min_layer + 1) |-> 0]
          counted == CountLayers(sorted_nodes, 1, layer_of, min_layer, zeros, zeros)
          total_layers == Sum(counted.layer_heights)
      IN
      IF total_layers = 0 THEN NoElements("ZeroDivisionError")
      ELSE
        LET layer_height == Rat(graph_height, total_layers)
            placed == PlaceNodes(sorted_nodes, 1, layer_of, min_layer,
                                 counted.layer_counts, counted.layer_heights,
                                 zeros, graph_width, total_layers, layer_height)
        IN  [exc |-> "none",
             elements |-> placed.elements \o EdgeElements(es),
             sorted_nodes |-> sorted_nodes,
             node_positions |-> placed.positions,
             total_layers |-> total_layers,
             layer_height |-> layer_height]

(***************************************************************************)
(* The inputs of the model: node identifiers, graph lines, graph texts and *)
(* directory listings.                                                     *)
(***************************************************************************)
a0_1 == <<"a", "0", ".", "1">>
a0_01 == <<"a", "0", ".", "0", "1">>
a0_2 == <<"a", "0", ".", "2">>
m0_0 == <<"m", "0", "-", "0">>
m0_H == <<"m", "0", "-", "H">>
m2_0 == <<"m", "2", "-", "0">>
mlp_out == <<"m", "l", "p", "_", "o", "u", "t">>
other_x == <<"x">>
other_H == <<"H">>

EdgeLine(a, b) == PatOpen \o a \o PatArrow \o b \o PatClose

EdgeLines ==
    {EdgeLine(a0_1, m0_0), EdgeLine(m0_0, resid_post),
     EdgeLine(resid_post, resid_post), EdgeLine(a0_2, a0_01),
     EdgeLine(a0_1, m0_H), EdgeLine(m2_0, m0_0),
     EdgeLine(mlp_out, m0_0), EdgeLine(other_x, other_H)}

OtherLines ==
    {<<"d", "i", "g", "r", "a", "p", "h", " ", "{">>,
     \* a quoted token before the edge
     PatOpen \o other_x \o PatClose \o <<" ">> \o EdgeLine(a0_1, m0_0)}

Lines == EdgeLines \cup OtherLines

LineSeqs == UNION {[1..n -> Lines] : n \in 0..MaxLines}

\* the text of a file with these lines, each ended by a newline
RECURSIVE TextOf(_)
TextOf(ls) == IF ls = <<>> THEN <<>> ELSE ls[1] \o <<NL>> \o TextOf(Tail(ls))

Texts == {TextOf(ls) : ls \in LineSeqs}

case1 == [subdir |-> "case1", isdir |-> TRUE, has_gv |-> TRUE]
case2 == [subdir |-> "case2", isdir |-> TRUE, has_gv |-> TRUE]
plain_file == [subdir |-> "README", isdir |-> FALSE, has_gv |-> FALSE]
empty_dir == [subdir |-> "empty", isdir |-> TRUE, has_gv |-> FALSE]

Listings == {{}, {plain_file, empty_dir}, {case2, case1, plain_file, empty_dir}}

(***************************************************************************)
(* get_gv_files.                                                           *)
(***************************************************************************)
\* the order of the subdirectory names of the model
NameRank(name) ==
    CASE name = "README" -> 0 [] name = "case1" -> 1 [] name = "case2" -> 2
      [] name = "empty" -> 3

RECURSIVE SortByName(_)
SortByName(S) ==
    IF S = {} THEN <<>>
    ELSE LET first == CHOOSE e \in S :
                          \A f \in S : NameRank(e.subdir) <= NameRank(f.subdir)
         IN  <<first>> \o SortByName(S \ {first})

\* the list of (subdir, gv_file), sorted by subdir
get_gv_files(circuit_dir, entries) ==
    LET kept == SortByName({e \in entries : e.isdir /\ e.has_gv})
    IN  [i \in 1..Len(kept) |->
            <<kept[i].subdir, <<circuit_dir, kept[i].subdir, "graph.gv">>>>]

(***************************************************************************)
(* main: one pass per user interaction.                                    *)
(***************************************************************************)
graph_width == 1500 - 100
graph_height == 1000 - 200

SelectMethod == "Select from existing cases"
UploadMethod == "Upload your own file"

EmptyPath == [type |-> "str", value |-> <<>>]
Falsy(f) == f = EmptyPath

NotCalled == NoElements("not called")

MainInit ==
    /\ analysis_method \in {SelectMethod, UploadMethod}
    /\ listing \in Listings
    /\ uploaded_file \in {"None", "UploadedFile"}
    /\ file_text \in Texts
    \* only the inputs the chosen method reads vary
    /\ analysis_method = SelectMethod => uploaded_file = "None"
    /\ analysis_method = UploadMethod => listing = {}
    /\ (analysis_method = SelectMethod /\ get_gv_files("gpt2-medium", listing) = <<>>)
         => file_text = <<>>
    /\ (analysis_method = UploadMethod /\ uploaded_file = "None") => file_text = <<>>
    /\ pc = "start"
    /\ gv_file_path = EmptyPath
    /\ edges = <<>>
    /\ layout = NotCalled
    /\ events = <<>>

\* lines 185-196
SelectCase ==
    /\ pc = "start"
    /\ analysis_method = SelectMethod
    /\ LET gv_files == get_gv_files("gpt2-medium", listing)
           case_names == {gv_files[i][1] : i \in 1..Len(gv_files)}
       IN  \E case \in (IF case_names = {} THEN {"None"} ELSE case_names) :
              LET found == {i \in 1..Len(gv_files) : gv_files[i][1] = case}
              IN  gv_file_path' =
                     IF found = {} THEN EmptyPath
                     ELSE [type |-> "str", value |-> gv_files[Least(found)][2]]
    /\ pc' = "chosen"
    /\ UNCHANGED <<analysis_method, listing, uploaded_file, file_text, edges,
                   layout, events, parse_vars, ids_vars>>

\* lines 199-203
UploadFile ==
    /\ pc = "start"
    /\ analysis_method = UploadMethod
    /\ uploaded_file # "None"
    /\ gv_file_path' = [type |-> "UploadedFile", value |-> <<>>]
    /\ pc' = "chosen"
    /\ UNCHANGED <<analysis_method, listing, uploaded_file, file_text, edges,
                   layout, events, parse_vars, ids_vars>>

\* lines 204-206
UploadWarning ==
    /\ pc = "start"
    /\ analysis_method = UploadMethod
    /\ uploaded_file = "None"
    /\ events' = Append(events, "warning")
    /\ pc' = "returned"
    /\ UNCHANGED <<analysis_method, listing, uploaded_file, file_text,
                   gv_file_path, edges, layout, parse_vars, ids_vars>>

\* lines 211-213
NoGraphFile ==
    /\ pc = "chosen"
    /\ Falsy(gv_file_path)
    /\ events' = Append(events, "error")
    /\ pc' = "returned"
    /\ UNCHANGED <<analysis_method, listing, uploaded_file, file_text,
                   gv_file_path, edges, layout, parse_vars, ids_vars>>

\* lines 215-219
Parse ==
    /\ pc = "chosen"
    /\ ~Falsy(gv_file_path)
    /\ edges' = gv_to_edges(gv_file_path, file_text)
    /\ events' = Append(events, "parse")
    /\ pc' = "parsed"
    /\ UNCHANGED <<analysis_method, listing, uploaded_file, file_text,
                   gv_file_path, layout, parse_vars, ids_vars>>

\* lines 222-225; an exception create_elements raises ends the pass
Layout ==
    /\ pc = "parsed"
    /\ \E sorted_result \in sorted_nodes_outcomes(NodesOf(edges)) :
          layout' = create_elements(edges, graph_width, graph_height, sorted_result)
    /\ events' = Append(events, IF layout'.exc = "none" THEN "layout" ELSE layout'.exc)
    /\ pc' = IF layout'.exc = "none" THEN "laid out" ELSE "raised"
    /\ UNCHANGED <<analysis_method, listing, uploaded_file, file_text,
                   gv_file_path, edges, parse_vars, ids_vars>>

\* lines 227-230
Render ==
    /\ pc = "laid out"
    /\ events' = Append(events, "render")
    /\ pc' = "returned"
    /\ UNCHANGED <<analysis_method, listing, uploaded_file, file_text,
                   gv_file_path, edges, layout, parse_vars, ids_vars>>

ParseIdle ==
    /\ parse_file = EmptyPath
    /\ parse_text = <<>>
    /\ parse_pc = "idle"
    /\ parse_first = <<>>
    /\ parse_second = <<>>

IdsIdle ==
    /\ id_node = <<>>
    /\ id_pc = "idle"
    /\ id_layer = Raised("not called")
    /\ id_head = Raised("not called")

Init == MainInit /\ ParseIdle /\ IdsIdle

Next ==
    \/ SelectCase
    \/ UploadFile
    \/ UploadWarning
    \/ NoGraphFile
    \/ Parse
    \/ Layout
    \/ Render

Spec == Init /\ [][Next]_vars

(***************************************************************************)
(* SpecIds: get_layer and get_attention_head over every identifier of at   *)
(* most MaxIdLen characters of IdChars.                                    *)
(***************************************************************************)
IdChars == {"m", "a", "t", "2", "7", ".", "-"}

Identifiers == UNION {[1..n -> IdChars] : n \in 0..MaxIdLen}

MainIdle ==
    /\ analysis_method = SelectMethod
    /\ listing = {}
    /\ uploaded_file = "None"
    /\ file_text = <<>>
    /\ pc = "idle"
    /\ gv_file_path = EmptyPath
    /\ edges = <<>>
    /\ layout = NotCalled
    /\ events = <<>>

InitIds ==
    /\ MainIdle
    /\ ParseIdle
    /\ id_node \in Identifiers
    /\ id_pc = "input"
    /\ id_layer = Raised("not called")
    /\ id_head = Raised("not called")

CallGetLayer ==
    /\ id_pc = "input"
    /\ id_layer' = get_layer(id_node)
    /\ id_pc' = "layer"
    /\ UNCHANGED <<id_node, id_head, main_vars, parse_vars>>

CallGetAttentionHead ==
    /\ id_pc = "layer"
    /\ id_head' = get_attention_head(id_node)
    /\ id_pc' = "done"
    /\ UNCHANGED <<id_node, id_layer, main_vars, parse_vars>>

NextIds == CallGetLayer \/ CallGetAttentionHead

SpecIds == InitIds /\ [][NextIds]_vars

(***************************************************************************)
(* SpecParse: gv_to_edges, called twice on the same file, over every text  *)
(* of at most MaxParseLines lines of ParseLines.                           *)
(***************************************************************************)
ParseLines ==
    {EdgeLine(a0_1, m0_0), EdgeLine(m0_0, resid_post), EdgeLine(a0_2, a0_01),
     <<>>,
     <<"d", "i", "g", "r", "a", "p", "h", " ", "{">>,
     \* two edges on one line
     EdgeLine(a0_1, m0_0) \o <<" ">> \o EdgeLine(m2_0, m0_0),
     \* a chain of two arrows
     PatOpen \o a0_2 \o PatArrow \o m0_0 \o PatArrow \o m2_0 \o PatClose,
     \* no closing quote
     PatOpen \o a0_1 \o PatArrow \o m0_0,
     \* nothing between the first angle brackets
     PatOpen \o PatArrow \o m0_0 \o PatClose,
     \* nothing between the second angle brackets, then an edge
     PatOpen \o a0_1 \o PatArrow \o PatClose \o <<" ">> \o EdgeLine(m2_0, m0_0),
     \* a quoted token before the edge
     PatOpen \o other_x \o PatClose \o <<" ">> \o EdgeLine(a0_1, m0_0)}

ParseLineSeqs == UNION {[1..n -> ParseLines] : n \in 0..MaxParseLines}

\* a file whose last line may lack its newline
ParseTexts ==
    {TextOf(ls) : ls \in ParseLineSeqs}
      \cup {SubSeq(TextOf(ls), 1, Len(TextOf(ls)) - 1) : ls \in ParseLineSeqs \ {<<>>}}

InitParse ==
    /\ MainIdle
    /\ IdsIdle
    /\ parse_file \in {[type |-> "str", value |-> <<"gpt2-medium", "case1", "graph.gv">>],
                       [type |-> "UploadedFile", value |-> <<>>]}
    /\ parse_text \in ParseTexts
    /\ parse_pc = "input"
    /\ parse_first = <<>>
    /\ parse_second = <<>>

ParseOnce ==
    /\ parse_pc = "input"
    /\ parse_first' = gv_to_edges(parse_file, parse_text)
    /\ parse_pc' = "once"
    /\ UNCHANGED <<parse_file, parse_text, parse_second, main_vars, ids_vars>>

ParseAgain ==
    /\ parse_pc = "once"
    /\ parse_second' = gv_to_edges(parse_file, parse_text)
    /\ parse_pc' = "twice"
    /\ UNCHANGED <<parse_file, parse_text, parse_first, main_vars, ids_vars>>

NextParse == ParseOnce \/ ParseAgain

SpecParse == InitParse /\ [][NextParse]_vars

(***************************************************************************)
(* Claims about get_layer and get_attention_head (SpecIds).                *)
(***************************************************************************)
AllDigits(s) == s # <<>> /\ \A i \in 1..Len(s) : s[i] \in Digits

\* node is m, digits, '-', anything
IsMlpForm(node) ==
    /\ startswith(node, "m")
    /\ Contains(node, "-")
    /\ AllDigits(SplitFirst(Tail(node), "-"))

\* node is a, digits, '.', digits
IsAttentionForm(node) ==
    /\ startswith(node, "a")
    /\ Contains(node, ".")
    /\ AllDigits(SplitFirst(Tail(node), "."))
    /\ AllDigits(SubSeq(node, Len(SplitFirst(node, ".")) + 2, Len(node)))

\* C3: get_layer returns L for mL-..., L for aL.H and 100 for any other
\* string; get_attention_head returns H for aL.H and -1 for any other string;
\* no identifier makes either of them raise.
C3_ClassifiesEveryIdentifier ==
    id_pc = "done" =>
        IF IsMlpForm(id_node)
        THEN /\ id_layer = Returned(DecimalValue(SplitFirst(Tail(id_node), "-")))
             /\ id_head = Returned(-1)
        ELSE IF IsAttentionForm(id_node)
        THEN /\ id_layer = Returned(DecimalValue(SplitFirst(Tail(id_node), ".")))
             /\ id_head = Returned(DecimalValue(
                    SubSeq(id_node, Len(SplitFirst(id_node, ".")) + 2, Len(id_node))))
        ELSE /\ id_layer = Returned(SentinelLayer)
             /\ id_head = Returned(-1)

(***************************************************************************)
(* Claims about create_elements and main (Spec).                           *)
(***************************************************************************)
LayoutCalled == pc \in {"laid out", "raised"} \/ (pc = "returned" /\ layout # NotCalled)

LayoutCompleted == layout.exc = "none"

\* the identifiers that occur in an edge
Endpoints == {edges[i][k] : i \in 1..Len(edges), k \in 1..2}

NodeCount == Cardinality(Endpoints)

LayerOf(n) == get_layer(n).val

IsSentinel(n) == get_layer(n) = Returned(SentinelLayer)

\* C1: create_elements never raises on the parser's output, and returns the
\* empty list for the empty edge sequence.
C1_LayoutNeverRaises ==
    LayoutCalled =>
        /\ layout.exc = "none"
        /\ edges = <<>> => layout.elements = <<>>

\* C2: when every node is a sentinel node, create_elements completes and
\* places each of them at x = 0.7 * W, y = 20.
C2_AllSentinelCompletes ==
    (LayoutCalled /\ Endpoints # {} /\ \A n \in Endpoints : IsSentinel(n)) =>
        /\ layout.exc = "none"
        /\ \A i \in 1..NodeCount :
              /\ layout.node_positions[i].x = Rat(7 * graph_width, 10)
              /\ layout.node_positions[i].y = RatInt(20)

\* C4: the list is one node element per distinct identifier of the edges,
\* then one edge element per edge in input order with id source-target;
\* every source and target is the id of a node element.
C4_ElementList ==
    LayoutCompleted =>
        LET els == layout.elements
            node_ids == {els[i].id : i \in 1..NodeCount}
        IN  /\ Len(els) = NodeCount + Len(edges)
            /\ \A i \in 1..NodeCount : "position" \in DOMAIN els[i]
            /\ node_ids = Endpoints
            /\ \A j \in 1..Len(edges) :
                  LET e == els[NodeCount + j]
                  IN  /\ "position" \notin DOMAIN e
                      /\ e.source = edges[j][1]
                      /\ e.target = edges[j][2]
                      /\ e.id = edges[j][1] \o <<"-">> \o edges[j][2]
                      /\ e.source \in node_ids
                      /\ e.target \in node_ids

\* the example of the specification, with a repeated edge in a second case
C4_Witness ==
    /\ LayoutCompleted
    /\ \/ edges = << <<a0_1, m0_0>>, <<m0_0, resid_post>> >>
       \/ (Len(edges) = 2 /\ edges[1] = edges[2])
    /\ Len(layout.elements) = NodeCount + 2

\* the node elements, in visitation order
NodeElements == SubSeq(layout.elements, 1, NodeCount)

IsLayeredAttention(e) == startswith(e.id, "a") /\ ~IsSentinel(e.id)

\* C6: within one non-sentinel layer the x of the attention nodes strictly
\* decreases in visitation order, which is the order of descending head
\* index; every such x is below 0.85 * W and no two are equal.
C6_AttentionXStrictlyDecreasing ==
    LayoutCompleted =>
        \A i, j \in 1..NodeCount :
            LET a == NodeElements[i]
                b == NodeElements[j]
            IN  (/\ IsLayeredAttention(a)
                 /\ IsLayeredAttention(b)
                 /\ LayerOf(a.id) = LayerOf(b.id)) =>
                    /\ RatLess(a.position.x, Rat(85 * graph_width, 100))
                    /\ i < j => RatLess(b.position.x, a.position.x)
                    /\ i < j => get_attention_head(a.id).val >= get_attention_head(b.id).val
                    /\ i # j => a.position.x # b.position.x

C6_Witness ==
    /\ LayoutCompleted
    /\ \E i, j \in 1..NodeCount :
          /\ i < j
          /\ IsLayeredAttention(NodeElements[i])
          /\ IsLayeredAttention(NodeElements[j])
          /\ LayerOf(NodeElements[i].id) = LayerOf(NodeElements[j].id)
          /\ \E k \in 1..NodeCount : NodeElements[k].type = "MLP"

\* C7: the element of a node with 'H' in its identifier has a y that is
\* verticalUnit / 4 = graph_height / totalLayers / 4 below the y computed for
\* the node (that of its layer peers without 'H'); its x, and both
\* coordinates of every node without 'H', are left as computed.
C7_HShift ==
    LayoutCompleted =>
        LET quarter == Rat(graph_height, 4 * layout.total_layers)
        IN  \A i \in 1..NodeCount :
                LET e == NodeElements[i]
                    computed == layout.node_positions[i]
                IN  /\ computed.node = e.id
                    /\ e.position.x = computed.x
                    /\ e.position.y =
                          IF Contains(e.id, "H") THEN RatSub(computed.y, quarter)
                          ELSE computed.y
                    /\ \A j \in 1..NodeCount :
                          LET f == NodeElements[j]
                          IN  (/\ Contains(e.id, "H")
                               /\ ~Contains(f.id, "H")
                               /\ LayerOf(f.id) = LayerOf(e.id)) =>
                                  e.position.y = RatSub(f.position.y, quarter)

C7_Witness ==
    /\ LayoutCompleted
    /\ \E i, j \in 1..NodeCount :
          /\ NodeElements[i].id = m0_H
          /\ NodeElements[j].id = m0_0
          /\ NodeElements[i].position.y # NodeElements[j].position.y

\* C8: a pass ends in one of three ways: the upload warning alone, the
\* missing-file error alone, or one parse, one layout and one render in that
\* order.
C8_PassOutcome ==
    pc \in {"returned", "raised"} =>
        \/ /\ analysis_method = UploadMethod
           /\ uploaded_file = "None"
           /\ events = <<"warning">>
        \/ /\ analysis_method = SelectMethod
           /\ get_gv_files("gpt2-medium", listing) = <<>>
           /\ events = <<"error">>
        \/ /\ ~(analysis_method = UploadMethod /\ uploaded_file = "None")
           /\ ~(analysis_method = SelectMethod
                  /\ get_gv_files("gpt2-medium", listing) = <<>>)
           /\ events = <<"parse", "layout", "render">>

\* the layers other than the sentinel layer that hold a node
OccupiedLayers == {LayerOf(n) : n \in {m \in Endpoints : ~IsSentinel(m)}}

\* the y of the claim for a node of this layer
StackedY(layer) ==
    LET below == Cardinality({l \in OccupiedLayers : l < layer})
        total == Cardinality(OccupiedLayers)
    IN  Rat((2 * (total - below) - 1) * graph_height, 2 * total)

\* the parts of C9 that do not depend on which nodes of a single-layer
\* graph are meant
C9_Stacking ==
    /\ layout.total_layers = Cardinality(OccupiedLayers)
    /\ layout.layer_height = Rat(graph_height, Cardinality(OccupiedLayers))
    /\ \A i \in 1..NodeCount :
          LET e == NodeElements[i]
          IN  (~IsSentinel(e.id) /\ ~Contains(e.id, "H")) =>
                  /\ e.position.y = StackedY(LayerOf(e.id))
                  /\ RatLess(RatInt(0), e.position.y)
                  /\ RatLess(e.position.y, RatInt(graph_height))
                  /\ \A j \in 1..NodeCount :
                        LET f == NodeElements[j]
                        IN  (/\ ~IsSentinel(f.id)
                             /\ ~Contains(f.id, "H")
                             /\ LayerOf(e.id) < LayerOf(f.id)) =>
                                RatLess(f.position.y, e.position.y)

HalfUnit == RatMul(Rat(1, 2), layout.layer_height)

\* C9 as stated: totalLayers counts the occupied non-sentinel layers, nodes
\* without 'H' are stacked bottom to top at the centre of their band,
\* strictly between 0 and H, and in a single-layer graph totalLayers = 1 and
\* every non-sentinel node has y = 0.5 * verticalUnit.
C9_Original ==
    LayoutCompleted =>
        /\ C9_Stacking
        /\ Cardinality(OccupiedLayers) = 1 =>
              /\ layout.total_layers = 1
              /\ \A i \in 1..NodeCount :
                    ~IsSentinel(NodeElements[i].id) =>
                        NodeElements[i].position.y = HalfUnit

\* C9 as amended: the same, where in a single-layer graph every non-sentinel
\* node without 'H' in its identifier has y = 0.5 * verticalUnit.
C9_Amended ==
    LayoutCompleted =>
        /\ C9_Stacking
        /\ Cardinality(OccupiedLayers) = 1 =>
              /\ layout.total_layers = 1
              /\ \A i \in 1..NodeCount :
                    (~IsSentinel(NodeElements[i].id)
                       /\ ~Contains(NodeElements[i].id, "H")) =>
                        NodeElements[i].position.y = HalfUnit

\* two occupied layers with an empty layer between them and a sentinel node
C9_Witness ==
    /\ LayoutCompleted
    /\ OccupiedLayers = {0, 2}
    /\ \E n \in Endpoints : IsSentinel(n)

\* C10: the element list does not depend on the order in which the node set
\* is iterated: every outcome of the sort gives the list this run returned.
C10_Deterministic ==
    LayoutCompleted =>
        \A other \in sorted_nodes_outcomes(NodesOf(edges)) :
            create_elements(edges, graph_width, graph_height, other).elements
                = layout.elements

(***************************************************************************)
(* Claims about gv_to_edges (SpecParse).                                   *)
(***************************************************************************)
\* the places <<i, p, q>> where the pattern occurs in line: the opening
\* literal at i, the arrow literal at p, the closing literal at q, with a
\* non-empty newline-free text between them
Occurrences(line) ==
    UNION {UNION {{<<i, p, q>> :
                     q \in {q \in (p + Len(PatArrow) + 1)..Len(line) :
                               /\ HasAt(line, q, PatClose)
                               /\ \A k \in (i + 2)..(q - 1) : line[k] # NL}} :
                  p \in {p \in (i + 3)..Len(line) : HasAt(line, p, PatArrow)}} :
           i \in {i \in 1..Len(line) : HasAt(line, i, PatOpen)}}

TripleLeq(t, u) ==
    \/ t[1] < u[1]
    \/ t[1] = u[1] /\ t[2] < u[2]
    \/ t[1] = u[1] /\ t[2] = u[2] /\ t[3] <= u[3]

\* the pair of the first match: leftmost, then the shortest first group,
\* then the shortest second group
FirstPair(line) ==
    LET t == CHOOSE t \in Occurrences(line) :
                 \A u \in Occurrences(line) : TripleLeq(t, u)
    IN  <<SubSeq(line, t[1] + 2, t[2] - 1),
          SubSeq(line, t[2] + Len(PatArrow), t[3] - 1)>>

\* the lines of the input that contain the pattern, in order
MatchingLines ==
    SelectSeq(split_newline(parse_text), LAMBDA l : Occurrences(l) # {})

\* C5: the edges are the first pairs of the matching lines, in the order of
\* the lines, duplicates kept; other lines add nothing; a second parse of
\* the same text returns the same sequence; the empty text gives no edge.
C5_ParseOrder ==
    /\ parse_pc \in {"once", "twice"} =>
          /\ Len(parse_first) = Len(MatchingLines)
          /\ \A k \in 1..Len(MatchingLines) : parse_first[k] = FirstPair(MatchingLines[k])
          /\ parse_text = <<>> => parse_first = <<>>
    /\ parse_pc = "twice" => parse_second = parse_first

\* a text in which two lines give the same edge: both are kept
C5_Witness ==
    /\ parse_pc = "twice"
    /\ Len(parse_first) = 2
    /\ parse_first[1] = parse_first[2]

====
